---- MODULE Spec2Model ----
(***************************************************************************)
(* Moodle MCP gateway: configuration (core/config.py), transport client    *)
(* (core/client.py), error translation and write gate                      *)
(* (utils/error_handling.py) and the tool functions built on them          *)
(* (tools/*.py).                                                           *)
(*                                                                         *)
(* Python strings are sequences of one-character strings, so that lower(), *)
(* strip(), split(), int() and the substring operator are computed rather  *)
(* than assumed.  A literal piece of a message may be kept as one element. *)
(* The keys and values of request parameters are built by concatenation    *)
(* only, and are kept as strings.                                          *)
(***************************************************************************)
EXTENDS Integers, Sequences, FiniteSets, TLC

VARIABLES
  client,     \* the MoodleAPIClient's httpx.AsyncClient: open or closed
  config,     \* the MoodleConfig singleton: env, dev_course_whitelist, prod_allow_writes
  query,      \* the last property read / gate query made on config, with its answer
  call,       \* the tool invocation in progress: tool, kwargs, ctx, position
  sent,       \* HTTP requests issued to the LMS by the invocation in progress
  response,   \* what the HTTP layer handed back for the last request
  result,     \* how _make_request ended: a returned value or a raised exception
  outcome     \* how the tool invocation ended for the MCP caller

vars == <<client, config, query, call, sent, response, result, outcome>>

----------------------------------------------------------------------------
(* Bounds *)

MaxEnvLen == 4        \* longest enumerated MOODLE_ENV value
MaxWhitelistLen == 4  \* longest enumerated MOODLE_DEV_COURSE_WHITELIST value

----------------------------------------------------------------------------
(* Python str helpers *)

Min(S) == CHOOSE x \in S : \A y \in S : x <= y
Max(S) == CHOOSE x \in S : \A y \in S : x >= y

SeqsUpTo(A, n) == UNION {[1..k -> A] : k \in 0..n}

Range(s) == {s[i] : i \in 1..Len(s)}

Whitespace == {" ", "\t", "\n"}

LowerChar(c) ==
  CASE c = "P" -> "p"
    [] c = "R" -> "r"
    [] c = "O" -> "o"
    [] c = "D" -> "d"
    [] c = "E" -> "e"
    [] c = "V" -> "v"
    [] OTHER -> c

lower(s) == [i \in 1..Len(s) |-> LowerChar(s[i])]

strip(s) ==
  LET keep == {i \in 1..Len(s) : s[i] \notin Whitespace}
  IN  IF keep = {} THEN <<>> ELSE SubSeq(s, Min(keep), Max(keep))

RECURSIVE split(_, _)
split(s, sep) ==
  LET at == {i \in 1..Len(s) : s[i] = sep}
  IN  IF at = {} THEN <<s>>
      ELSE <<SubSeq(s, 1, Min(at) - 1)>> \o split(SubSeq(s, Min(at) + 1, Len(s)), sep)

Digits == {"0", "1", "2", "3", "4", "5", "6", "7", "8", "9"}

DigitValue(c) ==
  CASE c = "0" -> 0 [] c = "1" -> 1 [] c = "2" -> 2 [] c = "3" -> 3 [] c = "4" -> 4
    [] c = "5" -> 5 [] c = "6" -> 6 [] c = "7" -> 7 [] c = "8" -> 8 [] c = "9" -> 9

\* int(s) raises ValueError unless s is a decimal literal
IntRaises(s) == s = <<>> \/ \E i \in 1..Len(s) : s[i] \notin Digits

RECURSIVE int(_)
int(s) == IF Len(s) = 0 THEN 0
          ELSE 10 * int(SubSeq(s, 1, Len(s) - 1)) + DigitValue(s[Len(s)])

\* needle in hay, for str operands
Contains(needle, hay) ==
  \E i \in 1..(Len(hay) - Len(needle) + 1) :
     SubSeq(hay, i, i + Len(needle) - 1) = needle

----------------------------------------------------------------------------
(* core/config.py: MoodleConfig *)

S_prod == <<"p", "r", "o", "d">>
S_dev == <<"d", "e", "v">>
S_7299 == <<"7", "2", "9", "9">>

DEFAULT_WHITELIST == 7299

MoodleConfig(e, wl, paw) ==
  [env |-> e, dev_course_whitelist |-> wl, prod_allow_writes |-> paw,
   dev_url |-> "https://dev.example", dev_token |-> "dev-token",
   prod_url |-> "https://prod.example", prod_token |-> "prod-token"]

parsed_dev_whitelist(cfg) ==
  LET pieces == split(cfg.dev_course_whitelist, ",")
      kept   == SelectSeq(pieces, LAMBDA p : strip(p) # <<>>)
  IN  IF \E i \in 1..Len(kept) : IntRaises(strip(kept[i]))
      THEN <<DEFAULT_WHITELIST>>
      ELSE [i \in 1..Len(kept) |-> int(strip(kept[i]))]

is_production_exact(cfg) == cfg.env = S_prod

is_production(cfg) == strip(lower(cfg.env)) = S_prod

is_development(cfg) == ~is_production(cfg)

url_exact(cfg) == IF cfg.env = S_prod THEN cfg.prod_url ELSE cfg.dev_url

url(cfg) == IF strip(lower(cfg.env)) = S_prod THEN cfg.prod_url ELSE cfg.dev_url

token(cfg) == IF strip(lower(cfg.env)) = S_prod THEN cfg.prod_token ELSE cfg.dev_token

environment_name(cfg) ==
  IF strip(lower(cfg.env)) = S_prod THEN "PRODUCTION" ELSE "DEVELOPMENT"

can_write_ignoring_mode(cfg, course_id) ==
  cfg.prod_allow_writes \/ course_id \in Range(parsed_dev_whitelist(cfg))

can_write_allowlist_only(cfg, course_id) ==
  course_id \in Range(parsed_dev_whitelist(cfg))

can_write_to_course(cfg, course_id) ==
  IF is_production(cfg)
  THEN cfg.prod_allow_writes
  ELSE course_id \in Range(parsed_dev_whitelist(cfg))

----------------------------------------------------------------------------
(* Inputs of the configuration specification *)

EnvChars == {"p", "r", "o", "d", "P", "D", " "}

ExtraEnvs ==
  { S_dev,
    <<"P", "R", "O", "D">>,
    <<"P", "r", "o", "d">>,
    <<" ", "p", "r", "o", "d", " ">>,
    <<" ", "P", "r", "o", "d">>,
    <<"p", "r", "o", "d", " ">>,
    <<"\t", "p", "r", "o", "d", "\n">>,
    <<"p", "r", "o", "d", "u", "c", "t", "i", "o", "n">>,
    <<"p", "r", " ", "o", "d">>,
    <<"D", "E", "V">> }

EnvStrings == SeqsUpTo(EnvChars, MaxEnvLen) \cup ExtraEnvs

FewEnvs == {S_dev, S_prod, <<"P", "R", "O", "D">>, <<>>}

WhitelistChars == {"1", "7", ",", " ", "x"}

WhitelistStrings ==
  SeqsUpTo(WhitelistChars, MaxWhitelistLen)
    \cup {S_7299, <<"7", "2", "9", "9", ",", "1">>, <<" ", "7", "2", "9", "9", " ", ",">>}

CourseIds == {1, 7, 7299}

NoQuery == [op |-> "none"]

\* self.client as __init__ leaves it, and after close()
Open == [closed |-> FALSE]
Closed == [closed |-> TRUE]

Idle == [pc |-> "idle"]
NoResponse == [kind |-> "none"]
NoResult == [kind |-> "none"]
NoOutcome == [kind |-> "none"]

ConfigInputs ==
  {MoodleConfig(e, S_7299, FALSE) : e \in EnvStrings}
    \cup {MoodleConfig(e, wl, paw) : e \in FewEnvs, wl \in WhitelistStrings, paw \in BOOLEAN}

\* reading the mode-dependent properties of the config
ReadProperties ==
  /\ query' = [op |-> "properties",
               url |-> url(config), token |-> token(config),
               environment_name |-> environment_name(config),
               is_production |-> is_production(config),
               is_development |-> is_development(config)]
  /\ UNCHANGED <<client, config, call, sent, response, result, outcome>>

\* config.can_write_to_course(course_id)
CheckWrite(course_id) ==
  /\ query' = [op |-> "can_write", course_id |-> course_id,
               allowed |-> can_write_to_course(config, course_id)]
  /\ UNCHANGED <<client, config, call, sent, response, result, outcome>>

InitConfig ==
  /\ config \in ConfigInputs
  /\ query = NoQuery
  /\ call = Idle
  /\ sent = <<>>
  /\ response = NoResponse
  /\ result = NoResult
  /\ outcome = NoOutcome
  /\ client = Open

NextConfig ==
  \/ ReadProperties
  \/ \E id \in CourseIds : CheckWrite(id)

SpecConfig == InitConfig /\ [][NextConfig]_vars

----------------------------------------------------------------------------
(* Properties of the configuration (SpecConfig) *)

\* C3: only the exact lowercase string "prod" selects Production; every other
\* value of env, "PROD" and "Prod" included, gives is_production false and the
\* development URL and token.
C3_OnlyExactProd ==
  query.op = "properties" =>
    /\ query.is_production <=> config.env = S_prod
    /\ config.env # S_prod =>
         query.url = config.dev_url /\ query.token = config.dev_token

\* env has the shape ws* [pP][rR][oO][dD] ws*
NormalFormIsProd(e) ==
  \E i \in 1..Len(e) :
    /\ Len(e) >= i + 3
    /\ \A k \in 1..(i - 1) : e[k] \in Whitespace
    /\ \A k \in (i + 4)..Len(e) : e[k] \in Whitespace
    /\ e[i] \in {"p", "P"}
    /\ e[i + 1] \in {"r", "R"}
    /\ e[i + 2] \in {"o", "O"}
    /\ e[i + 3] \in {"d", "D"}

C5_DevAllowListMembership ==
  (query.op = "can_write" /\ is_development(config)) =>
    /\ query.allowed <=> query.course_id \in Range(parsed_dev_whitelist(config))
    /\ config.dev_course_whitelist = S_7299 =>
         (query.allowed <=> query.course_id = 7299)
    /\ query.allowed =
         can_write_to_course([config EXCEPT !.prod_allow_writes = ~@], query.course_id)

C5_Witness ==
  /\ query.op = "can_write"
  /\ is_development(config)
  /\ config.dev_course_whitelist = S_7299
  /\ config.prod_allow_writes
  /\ query.course_id = 1
  /\ ~query.allowed

\* C6: in Production mode can_write_to_course(id) equals prod_allow_writes for
\* every id; an id on the development allow-list is still denied when the flag
\* is false.
C6_ProdFlagDecides ==
  (query.op = "can_write" /\ is_production(config)) =>
    query.allowed = config.prod_allow_writes

C6_Witness ==
  /\ query.op = "can_write"
  /\ is_production(config)
  /\ ~config.prod_allow_writes
  /\ query.course_id \in Range(parsed_dev_whitelist(config))
  /\ ~query.allowed

----------------------------------------------------------------------------
(* core/client.py: MoodleAPIClient._make_request *)

MaxCodeWords == 2     \* words concatenated into an enumerated errorcode

\* a key that the JSON object does not have
Absent == <<"<absent>">>
\* the JSON value null
Null == <<"<null>">>

S_invalidtoken == <<"i", "n", "v", "a", "l", "i", "d", "t", "o", "k", "e", "n">>
S_accessexception ==
  <<"a", "c", "c", "e", "s", "s", "e", "x", "c", "e", "p", "t", "i", "o", "n">>
S_nopermission == <<"n", "o", "p", "e", "r", "m", "i", "s", "s", "i", "o", "n">>
S_requireloginerror ==
  <<"r", "e", "q", "u", "i", "r", "e", "l", "o", "g", "i", "n", "e", "r", "r", "o", "r">>
S_invalidrecord == <<"i", "n", "v", "a", "l", "i", "d", "r", "e", "c", "o", "r", "d">>
S_notfound == <<"n", "o", "t", "f", "o", "u", "n", "d">>
S_unknown == <<"u", "n", "k", "n", "o", "w", "n">>
S_Unknown_error == <<"Unknown error">>
S_x == <<"x">>
S_bad == <<"b", "a", "d">>
S_dbg == <<"d", "b", "g">>

\* the exception raised by a call, with str(e)
Raise(exc, message) == [kind |-> "raise", exc |-> exc, message |-> message]
Return(value) == [kind |-> "return", value |-> value]
\* the coroutine is suspended at an await
Await == [kind |-> "await"]

\* dict.get(key, default) on a parsed JSON object
get(obj, key, default) == IF obj[key] = Absent THEN default ELSE obj[key]

\* 'exception' in result or 'errorcode' in result
is_error_body_exception_only(body) ==
  body.json = "object" /\ body.exception # Absent

is_error_body(body) ==
  body.json = "object" /\ (body.exception # Absent \/ body.errorcode # Absent)

\* the if/elif chain over error_code, client.py:106-116
classify_error_notfound_first(error_code, error_msg, debug_info) ==
  IF Contains(S_invalidrecord, error_code) \/ Contains(S_notfound, error_code)
  THEN Raise("MoodleNotFoundError", <<"Not found: ">> \o error_msg)
  ELSE IF Contains(S_invalidtoken, error_code) \/ Contains(S_accessexception, error_code)
  THEN Raise("MoodleAuthError", <<"Authentication failed: ">> \o error_msg)
  ELSE IF Contains(S_nopermission, error_code) \/ Contains(S_requireloginerror, error_code)
  THEN Raise("MoodlePermissionError", <<"Permission denied: ">> \o error_msg)
  ELSE Raise("MoodleAPIError",
             <<"Moodle API error (">> \o error_code \o <<"): ">> \o error_msg
               \o (IF debug_info # <<>> THEN <<" - ">> \o debug_info ELSE <<>>))

classify_error(error_code, error_msg, debug_info) ==
  IF error_code = Null
  THEN Raise("TypeError", <<"argument of type 'NoneType' is not iterable">>)
  ELSE IF Contains(S_invalidtoken, error_code) \/ Contains(S_accessexception, error_code)
  THEN Raise("MoodleAuthError", <<"Authentication failed: ">> \o error_msg)
  ELSE IF Contains(S_nopermission, error_code) \/ Contains(S_requireloginerror, error_code)
  THEN Raise("MoodlePermissionError", <<"Permission denied: ">> \o error_msg)
  ELSE IF Contains(S_invalidrecord, error_code) \/ Contains(S_notfound, error_code)
  THEN Raise("MoodleNotFoundError", <<"Not found: ">> \o error_msg)
  ELSE Raise("MoodleAPIError",
             <<"Moodle API error (">> \o error_code \o <<"): ">> \o error_msg
               \o (IF debug_info # <<>> THEN <<" - ">> \o debug_info ELSE <<>>))

\* response.raise_for_status(): HTTPStatusError unless the status is 2xx
is_success(status) == 200 <= status /\ status <= 299

\* the except httpx.HTTPStatusError clause, client.py:120-127
on_http_status_error_as_api(status) ==
  IF status = 401 \/ status = 403
  THEN Raise("MoodleAuthError",
             <<"HTTP ", ToString(status), ": Authentication failed">>)
  ELSE IF status = 404
  THEN Raise("MoodleNotFoundError", <<"HTTP 404: Resource not found">>)
  ELSE Raise("MoodleAPIError", <<"HTTP error ", ToString(status)>>)

on_http_status_error(status) ==
  IF status = 401 \/ status = 403
  THEN Raise("MoodleAuthError",
             <<"HTTP ", ToString(status), ": Authentication failed">>)
  ELSE IF status = 404
  THEN Raise("MoodleNotFoundError", <<"HTTP 404: Resource not found">>)
  ELSE Raise("MoodleConnectionError", <<"HTTP error ", ToString(status)>>)

\* the except httpx.RequestError clause, client.py:128-129; message is str(e)
on_request_error_as_api(message) ==
  Raise("MoodleAPIError", <<"Connection failed: ">> \o message)

on_request_error(message) ==
  Raise("MoodleConnectionError", <<"Connection failed: ">> \o message)

\* the except ValueError clause, client.py:130-131: response.json() failed
on_value_error_as_connection(message) ==
  Raise("MoodleConnectionError", <<"Invalid JSON response: ">> \o message)

on_value_error(message) ==
  Raise("MoodleAPIError", <<"Invalid JSON response: ">> \o message)

\* str(e) of the json.JSONDecodeError that response.json() raises
S_decode_error == <<"Expecting value: line 1 column 1 (char 0)">>

\* what _make_request does with the response of its GET, client.py:90-131
make_request(resp) ==
  IF resp.kind = "request_error"
  THEN on_request_error(resp.message)
  ELSE IF ~is_success(resp.status)
  THEN on_http_status_error(resp.status)
  ELSE IF resp.body.json = "invalid"
  THEN on_value_error(S_decode_error)
  ELSE IF is_error_body(resp.body)
  THEN classify_error(get(resp.body, "errorcode", S_unknown),
                      get(resp.body, "message", S_Unknown_error),
                      get(resp.body, "debuginfo", <<>>))
  ELSE Return(resp.body)

----------------------------------------------------------------------------
(* core/client.py: MoodleAPIClient._flatten_params and the request it feeds *)

\* str(bool)
BoolStr(b) == IF b THEN "True" ELSE "False"

\* Python values that a params dict holds.  A dict is the sequence of its
\* items() in iteration order, each item a pair <<key, value>>; keys and
\* flattened values are strings.
PyInt(n) == [t |-> "int", v |-> n]
PyStr(s) == [t |-> "str", v |-> s]
PyBool(b) == [t |-> "bool", v |-> b]
PyNone == [t |-> "none"]
PyList(items) == [t |-> "list", items |-> items]
PyDict(items) == [t |-> "dict", items |-> items]

\* key in d
has_key(d, k) == \E i \in 1..Len(d) : d[i][1] = k

\* d[key]
dict_get(d, k) == d[CHOOSE i \in 1..Len(d) : d[i][1] = k][2]

\* d[key] = value: an existing key keeps its place, a new key goes last
dict_set(d, k, v) ==
  IF has_key(d, k)
  THEN [i \in 1..Len(d) |-> IF d[i][1] = k THEN <<k, v>> ELSE d[i]]
  ELSE Append(d, <<k, v>>)

\* d.update(other)
RECURSIVE update(_, _)
update(d, other) ==
  IF other = <<>> THEN d
  ELSE update(dict_set(d, other[1][1], other[1][2]), Tail(other))

\* repr(value) and str(value)
RECURSIVE repr(_)
RECURSIVE join_reprs(_)
RECURSIVE join_item_reprs(_)
join_reprs(items) ==
  IF items = <<>> THEN ""
  ELSE IF Len(items) = 1 THEN repr(items[1])
  ELSE repr(items[1]) \o ", " \o join_reprs(Tail(items))

join_item_reprs(items) ==
  IF items = <<>> THEN ""
  ELSE LET one == "'" \o items[1][1] \o "': " \o repr(items[1][2])
       IN  IF Len(items) = 1 THEN one ELSE one \o ", " \o join_item_reprs(Tail(items))

repr(value) ==
  CASE value.t = "int" -> ToString(value.v)
    [] value.t = "str" -> "'" \o value.v \o "'"
    [] value.t = "bool" -> BoolStr(value.v)
    [] value.t = "none" -> "None"
    [] value.t = "list" -> "[" \o join_reprs(value.items) \o "]"
    [] value.t = "dict" -> "{" \o join_item_reprs(value.items) \o "}"

str(value) == IF value.t = "str" THEN value.v ELSE repr(value)

\* _flatten_params(params, prefix), client.py:133-164
RECURSIVE flatten_params(_, _)
RECURSIVE flatten_items(_, _, _)
RECURSIVE flatten_list(_, _, _, _)

\* for i, item in enumerate(value), from index i on
flatten_list(value, i, new_key, flattened) ==
  IF i >= Len(value) THEN flattened
  ELSE LET item == value[i + 1]
           after ==
             IF item.t = "dict"
             THEN update(flattened,
                         flatten_params(item.items,
                                        new_key \o "[" \o ToString(i) \o "]["))
             ELSE dict_set(flattened, new_key \o "[" \o ToString(i) \o "]", str(item))
       IN  flatten_list(value, i + 1, new_key, after)

\* for key, value in params.items(), with the dict built so far
flatten_items(items, prefix, flattened) ==
  IF items = <<>> THEN flattened
  ELSE LET key == items[1][1]
           value == items[1][2]
           new_key == IF prefix # "" THEN prefix \o key ELSE key
           after ==
             CASE value.t = "dict" ->
                    LET inner == update(flattened,
                                        flatten_params(value.items, new_key \o "["))
                    IN  IF prefix # "" THEN dict_set(inner, new_key \o "]", "") ELSE inner
               [] value.t = "list" -> flatten_list(value.items, 0, new_key, flattened)
               [] OTHER -> dict_set(flattened, new_key, str(value))
       IN  flatten_items(Tail(items), prefix, after)

flatten_params_without_closing(params, prefix) ==
  SelectSeq(flatten_items(params, prefix, <<>>), LAMBDA entry : entry[2] # "")

flatten_params(params, prefix) == flatten_items(params, prefix, <<>>)

\* request_params of one call, client.py:79-88; params None is <<>>
Request(function_name, params) ==
  LET request_params == << <<"wstoken", token(config)>>,
                           <<"wsfunction", function_name>>,
                           <<"moodlewsrestformat", "json">> >>
  IN  IF params # <<>>
      THEN update(request_params, flatten_params(params, ""))
      ELSE request_params

\* str(e) of the RuntimeError that a closed httpx.AsyncClient raises
S_client_closed == <<"Cannot send a request, as the client has been closed.">>

\* await self.client.get(self.api_endpoint, params=request_params),
\* client.py:92: on an open client the request goes out once and the
\* coroutine waits for the response; a closed httpx client raises
\* RuntimeError, which none of the except clauses of _make_request catches
client_get_resending(cl, requests, request_params) ==
  IF cl.closed
  THEN [requests |-> requests, outcome |-> Raise("RuntimeError", S_client_closed)]
  ELSE [requests |-> Append(Append(requests, request_params), request_params),
        outcome |-> Await]

client_get_ignoring_closed(cl, requests, request_params) ==
  [requests |-> Append(requests, request_params), outcome |-> Await]

client_get(cl, requests, request_params) ==
  IF cl.closed
  THEN [requests |-> requests, outcome |-> Raise("RuntimeError", S_client_closed)]
  ELSE [requests |-> Append(requests, request_params), outcome |-> Await]

\* C29: for every env the five mode-dependent properties of one config
\* select the same environment: the production URL, the production token
\* and the name PRODUCTION are returned exactly when is_production is true,
\* the development ones otherwise, and is_development is its negation.
C29_PropertiesAgree ==
  query.op = "properties" =>
    /\ query.url = (IF query.is_production THEN config.prod_url ELSE config.dev_url)
    /\ query.token = (IF query.is_production THEN config.prod_token ELSE config.dev_token)
    /\ query.environment_name =
         (IF query.is_production THEN "PRODUCTION" ELSE "DEVELOPMENT")
    /\ query.is_development = ~query.is_production

C29_Witness ==
  /\ query.op = "properties"
  /\ config.env = <<"P", "R", "O", "D">>
  /\ query.is_production
  /\ query.url = config.prod_url
  /\ query.token = config.prod_token
  /\ query.environment_name = "PRODUCTION"
  /\ ~query.is_development

----------------------------------------------------------------------------
(* Inputs of the client specification: what the LMS can answer *)

ErrorWords ==
  { S_invalidtoken, S_accessexception, S_nopermission, S_requireloginerror,
    S_invalidrecord, S_notfound, S_x,
    <<"i", "n", "v", "a", "l", "i", "d">>, <<"t", "o", "k", "e", "n">>,
    <<"n", "o", "t">>, <<"f", "o", "u", "n", "d">> }

RECURSIVE ErrorCodes(_)
ErrorCodes(n) ==
  IF n = 0 THEN {<<>>}
  ELSE ErrorCodes(n - 1) \cup {c \o w : c \in ErrorCodes(n - 1), w \in ErrorWords}

ObjectBodies ==
  {[json |-> "object", exception |-> e, errorcode |-> c, message |-> m, debuginfo |-> d] :
     e \in {Absent, S_x},
     c \in ErrorCodes(MaxCodeWords) \cup {Absent, Null},
     m \in {Absent, S_bad},
     d \in {Absent, <<>>, S_dbg}}

OtherBodies ==
  { [json |-> "invalid"],
    [json |-> "array", items |-> <<>>],
    [json |-> "array", items |-> <<2292>>],
    [json |-> "scalar", value |-> 0] }

Statuses == {200, 201, 400, 401, 403, 404, 500, 503}

HttpResponse(status, body) == [kind |-> "http", status |-> status, body |-> body]
RequestError(message) == [kind |-> "request_error", message |-> message]

\* str(e) of httpx.ConnectError (DNS failure, connection refused) and of
\* httpx.ConnectTimeout / ReadTimeout
RequestErrors ==
  { RequestError(<<"[Errno -2] Name or service not known">>),
    RequestError(<<"[Errno 111] Connection refused">>),
    RequestError(<<>>) }

ClientResponses ==
  {HttpResponse(s, b) : s \in Statuses, b \in ObjectBodies \cup OtherBodies}
    \cup RequestErrors

\* {"options": {"ids": [2292]}}
OptionsIds2292 ==
  << <<"options", PyDict(<< <<"ids", PyList(<<PyInt(2292)>>)>> >>)>> >>

\* {"wstoken": "other-token", "wsfunction": "core_user_delete_users",
\*  "moodlewsrestformat": "xml"}
ReservedKeys ==
  << <<"wstoken", PyStr("other-token")>>,
     <<"wsfunction", PyStr("core_user_delete_users")>>,
     <<"moodlewsrestformat", PyStr("xml")>> >>

\* the calls made on the client: get_site_info() passes no params
ClientCalls ==
  { [function_name |-> "core_webservice_get_site_info", params |-> <<>>],
    [function_name |-> "core_course_get_courses", params |-> OptionsIds2292],
    [function_name |-> "core_course_get_courses", params |-> ReservedKeys] }

\* _make_request up to its await: the GET is issued
SendRequest(function_name, params) ==
  /\ call.pc = "idle"
  /\ LET g == client_get(client, <<>>, Request(function_name, params))
     IN  /\ call' = [pc |-> IF g.outcome = Await THEN "awaiting" ELSE "done",
                     tool |-> "_make_request",
                     function_name |-> function_name, params |-> params]
         /\ sent' = g.requests
         /\ result' = IF g.outcome = Await THEN NoResult ELSE g.outcome
  /\ response' = NoResponse
  /\ UNCHANGED <<client, config, query, outcome>>

\* _make_request after its await: the response is classified
ReceiveResponse ==
  /\ call.pc = "awaiting"
  /\ call.tool = "_make_request"
  /\ \E resp \in ClientResponses :
       /\ response' = resp
       /\ result' = make_request(resp)
  /\ call' = [call EXCEPT !.pc = "done"]
  /\ UNCHANGED <<client, config, query, sent, outcome>>

\* the value or exception of _make_request reaches its caller, which may
\* go on to make its next call
ReturnToCaller ==
  /\ call.pc = "done"
  /\ call.tool = "_make_request"
  /\ call' = Idle
  /\ sent' = <<>>
  /\ response' = NoResponse
  /\ result' = NoResult
  /\ UNCHANGED <<client, config, query, outcome>>

\* close(), client.py:175-177, called between two calls
Close ==
  /\ call.pc = "idle"
  /\ ~client.closed
  /\ client' = Closed
  /\ UNCHANGED <<config, query, call, sent, response, result, outcome>>

InitClient ==
  /\ config = MoodleConfig(S_dev, S_7299, FALSE)
  /\ query = NoQuery
  /\ call = Idle
  /\ sent = <<>>
  /\ response = NoResponse
  /\ result = NoResult
  /\ outcome = NoOutcome
  /\ client = Open

NextClient ==
  \/ \E c \in ClientCalls : SendRequest(c.function_name, c.params)
  \/ ReceiveResponse
  \/ ReturnToCaller
  \/ Close

SpecClient == InitClient /\ [][NextClient]_vars

----------------------------------------------------------------------------
(* Properties of _make_request (SpecClient) *)

InvalidTokenBody ==
  [json |-> "object", exception |-> S_x, errorcode |-> S_invalidtoken,
   message |-> S_bad, debuginfo |-> Absent]

\* C8: the body {"exception":"x","errorcode":"invalidtoken","message":"bad"}
\* makes _make_request raise MoodleAuthError whatever the HTTP status is.
C8_InvalidTokenAnyStatus ==
  (response.kind = "http" /\ response.body = InvalidTokenBody) =>
    (result.kind = "raise" /\ result.exc = "MoodleAuthError")

\* C9: an object holding the key "exception" or the key "errorcode" is never
\* the returned value, whatever the status; a parsed body without those keys
\* at a success status is returned unmodified.
C9_ErrorBodyNeverReturned ==
  response.kind = "http" =>
    /\ (response.body.json = "object"
          /\ (response.body.exception # Absent \/ response.body.errorcode # Absent))
         => result.kind # "return"
    /\ (/\ response.status \in 200..299
        /\ response.body.json # "invalid"
        /\ ~(response.body.json = "object"
               /\ (response.body.exception # Absent \/ response.body.errorcode # Absent)))
         => result = Return(response.body)

C9_Witness ==
  /\ response.kind = "http"
  /\ response.status = 200
  /\ response.body.json = "object"
  /\ response.body.exception = Absent
  /\ response.body.errorcode = <<>>
  /\ result.kind = "raise"

HasAny(code, needles) == \E n \in needles : Contains(n, code)

\* C10: at a success status an error-shaped body with a string error code is
\* classified by the first matching group: invalidtoken/accessexception give
\* MoodleAuthError, else nopermission/requireloginerror MoodlePermissionError,
\* else invalidrecord/notfound MoodleNotFoundError, else MoodleAPIError, whose
\* message carries debuginfo exactly when debuginfo is non-empty.
C10_FirstMatchWins ==
  (/\ response.kind = "http"
   /\ response.status \in 200..299
   /\ response.body.json = "object"
   /\ (response.body.exception # Absent \/ response.body.errorcode # Absent)
   /\ response.body.errorcode # Null) =>
    LET b    == response.body
        code == IF b.errorcode = Absent THEN S_unknown ELSE b.errorcode
        msg  == IF b.message = Absent THEN S_Unknown_error ELSE b.message
        auth == HasAny(code, {S_invalidtoken, S_accessexception})
        perm == HasAny(code, {S_nopermission, S_requireloginerror})
        nf   == HasAny(code, {S_invalidrecord, S_notfound})
        dbg  == b.debuginfo \notin {Absent, <<>>}
    IN  /\ result.kind = "raise"
        /\ auth => result.exc = "MoodleAuthError"
        /\ (~auth /\ perm) => result.exc = "MoodlePermissionError"
        /\ (~auth /\ ~perm /\ nf) => result.exc = "MoodleNotFoundError"
        /\ (~auth /\ ~perm /\ ~nf) => result.exc = "MoodleAPIError"
        /\ Contains(msg, result.message)
        /\ result.exc = "MoodleAPIError" =>
             /\ Contains(<<" - ">>, result.message) <=> dbg
             /\ dbg => Contains(<<" - ">> \o b.debuginfo, result.message)

C10_Witness ==
  /\ response.kind = "http"
  /\ response.status = 200
  /\ response.body.json = "object"
  /\ response.body.errorcode = S_notfound \o S_invalidtoken
  /\ result.kind = "raise"
  /\ result.exc = "MoodleAuthError"

\* a parsed JSON object that holds the key "exception" or "errorcode"
ErrorShaped(body) ==
  body.json = "object" /\ (body.exception # Absent \/ body.errorcode # Absent)

\* C11: at a failure status with no parseable JSON error body the status alone
\* decides: 401 and 403 raise MoodleAuthError, 404 raises MoodleNotFoundError,
\* every other failure status raises MoodleConnectionError.
C11_StatusAloneDecides ==
  (/\ response.kind = "http"
   /\ response.status \in 400..599
   /\ ~ErrorShaped(response.body)) =>
    /\ result.kind = "raise"
    /\ response.status \in {401, 403} => result.exc = "MoodleAuthError"
    /\ response.status = 404 => result.exc = "MoodleNotFoundError"
    /\ response.status \notin {401, 403, 404} => result.exc = "MoodleConnectionError"

C11_Witness ==
  /\ response.kind = "http"
  /\ response.status = 503
  /\ response.body.json = "invalid"
  /\ result.kind = "raise"
  /\ result.exc = "MoodleConnectionError"

\* C12: a transport failure before any response makes _make_request raise
\* MoodleConnectionError whose message holds the underlying message; no other
\* error kind and no value comes out.
C12_TransportFailureIsConnection ==
  response.kind = "request_error" =>
    /\ result.kind = "raise"
    /\ result.exc = "MoodleConnectionError"
    /\ Contains(response.message, result.message)

C12_Witness ==
  /\ response.kind = "request_error"
  /\ response.message = <<"[Errno 111] Connection refused">>
  /\ result.kind = "raise"
  /\ result.exc = "MoodleConnectionError"

\* C13: an invocation of _make_request on a client that has not been closed
\* has issued exactly one HTTP request, the one built from its function and
\* params, while it waits and when it has ended, whatever the outcome.
C13_ExactlyOneRequest ==
  (call.pc \in {"awaiting", "done"} /\ call.tool = "_make_request" /\ ~client.closed) =>
    /\ Len(sent) = 1
    /\ sent[1] = Request(call.function_name, call.params)

C13_Witness ==
  /\ call.pc = "done"
  /\ call.tool = "_make_request"
  /\ response.kind = "request_error"
  /\ result.kind = "raise"
  /\ Len(sent) = 1

ClassifiedErrors ==
  { "MoodleAuthError", "MoodlePermissionError", "MoodleNotFoundError",
    "MoodleConnectionError", "MoodleAPIError", "MoodleValidationError" }

\* C14: whatever the LMS answers, an exception that leaves _make_request is
\* one of the classified errors.
C14_OnlyClassifiedErrors ==
  result.kind = "raise" => result.exc \in ClassifiedErrors

\* C15: a success status with a body that is not JSON raises MoodleAPIError
\* with a message that describes the parse failure; it is neither returned
\* nor reported as MoodleConnectionError.
C15_UnparseableIsApiError ==
  (/\ response.kind = "http"
   /\ response.status \in 200..299
   /\ response.body.json = "invalid") =>
    /\ result.kind = "raise"
    /\ result.exc = "MoodleAPIError"
    /\ Contains(<<"Invalid JSON response: ">>, result.message)
    /\ Len(result.message) > 1

C15_Witness ==
  /\ response.kind = "http"
  /\ response.status = 201
  /\ response.body.json = "invalid"
  /\ result.kind = "raise"
  /\ result.exc = "MoodleAPIError"

\* C17: the request of _make_request("core_course_get_courses",
\* {"options": {"ids": [2292]}}) holds the parameter options[ids][0] with the
\* value 2292.
C17_OptionsIdsEncoded ==
  (/\ call.pc \in {"awaiting", "done"}
   /\ call.tool = "_make_request"
   /\ call.function_name = "core_course_get_courses"
   /\ call.params = OptionsIds2292
   /\ ~client.closed) =>
    /\ Len(sent) = 1
    /\ has_key(sent[1], "options[ids][0]")
    /\ dict_get(sent[1], "options[ids][0]") = "2292"

\* C27: every request sent holds wstoken equal to the configured token,
\* wsfunction equal to the requested function and moodlewsrestformat equal
\* to json, whatever keys the caller's params have.
C27_FixedTripleKept ==
  (call.pc \in {"awaiting", "done"} /\ call.tool = "_make_request" /\ sent # <<>>) =>
    \A i \in 1..Len(sent) :
      /\ dict_get(sent[i], "wstoken") = token(config)
      /\ dict_get(sent[i], "wsfunction") = call.function_name
      /\ dict_get(sent[i], "moodlewsrestformat") = "json"

----------------------------------------------------------------------------
(* Inputs of the flattening specification: nested params *)

MaxDepth == 3         \* deepest nesting of the enumerated params values

FlattenKeys == {"a", "b"}
FlattenScalars == {PyInt(1), PyInt(2)}

\* values nested at most d deep; a second entry of a dict or list is a scalar
RECURSIVE PyValues(_)
PyValues(d) ==
  IF d = 0 THEN FlattenScalars
  ELSE LET V == PyValues(d - 1)
       IN  V \cup {PyDict(<<>>), PyList(<<>>)}
             \cup {PyDict(<< <<k, v>> >>) : k \in FlattenKeys, v \in V}
             \cup {PyDict(<< <<"a", v>>, <<"b", w>> >>) : v \in V, w \in FlattenScalars}
             \cup {PyList(<<v>>) : v \in V}
             \cup {PyList(<<v, w>>) : v \in V, w \in FlattenScalars}

\* {"users": [{"id": 1}, {"id": 2}]}
UsersIds ==
  << <<"users", PyList(<< PyDict(<< <<"id", PyInt(1)>> >>),
                          PyDict(<< <<"id", PyInt(2)>> >>) >>)>> >>

\* {"a": None, "b": True}, {"a": "x", "a[0]": 1} and {"a[0]": 1, "a": [2]}
ScalarKinds == << <<"a", PyNone>>, <<"b", PyBool(TRUE)>> >>
StrAndBracketKey == << <<"a", PyStr("x")>>, <<"a[0]", PyInt(1)>> >>
BracketKeyThenList == << <<"a[0]", PyInt(1)>>, <<"a", PyList(<<PyInt(2)>>)>> >>

FlattenInputs ==
  {<< <<"a", v>> >> : v \in PyValues(MaxDepth)}
    \cup {<< <<"a", v>>, <<"b", w>> >> : v \in PyValues(1), w \in PyValues(1)}
    \cup {<<>>, UsersIds, OptionsIds2292, ScalarKinds, StrAndBracketKey,
          BracketKeyThenList}

\* self._flatten_params(params) called on the chosen params
Flatten ==
  /\ query.op = "flatten_input"
  /\ result = NoResult
  /\ result' = Return(flatten_params(query.params, ""))
  /\ UNCHANGED <<client, config, query, call, sent, response, outcome>>

InitFlatten ==
  /\ config = MoodleConfig(S_dev, S_7299, FALSE)
  /\ query \in {[op |-> "flatten_input", params |-> p] : p \in FlattenInputs}
  /\ call = Idle
  /\ sent = <<>>
  /\ response = NoResponse
  /\ result = NoResult
  /\ outcome = NoOutcome
  /\ client = Open

NextFlatten == Flatten

SpecFlatten == InitFlatten /\ [][NextFlatten]_vars

----------------------------------------------------------------------------
(* Properties of _flatten_params (SpecFlatten) *)

\* the number of leaf scalars of a dict's items / of a value
RECURSIVE LeavesOfItems(_)
RECURSIVE LeavesOfList(_)
RECURSIVE Leaves(_)
LeavesOfItems(items) ==
  IF items = <<>> THEN 0 ELSE Leaves(items[1][2]) + LeavesOfItems(Tail(items))

LeavesOfList(items) ==
  IF items = <<>> THEN 0 ELSE Leaves(items[1]) + LeavesOfList(Tail(items))

Leaves(value) ==
  CASE value.t = "dict" -> LeavesOfItems(value.items)
    [] value.t = "list" -> LeavesOfList(value.items)
    [] OTHER -> 1

\* C16: flattening {"users": [{"id": 1}, {"id": 2}]} yields exactly
\* {"users[0][id]": "1", "users[1][id]": "2"}.
C16_UsersListOfDicts ==
  (query.op = "flatten_input" /\ query.params = UsersIds /\ result.kind = "return") =>
    result.value = << <<"users[0][id]", "1">>, <<"users[1][id]", "2">> >>

\* C18: the flattened mapping has exactly one entry for every leaf scalar of
\* the source: as many entries as leaves.
C18_OneEntryPerLeaf ==
  (query.op = "flatten_input" /\ result.kind = "return") =>
    Len(result.value) = LeavesOfItems(query.params)

\* the keys that close a mapping met under a non-empty prefix
RECURSIVE ClosingKeysOfItems(_, _)
RECURSIVE ClosingKeysOfList(_, _, _)
ClosingKeysOfItems(items, prefix) ==
  IF items = <<>> THEN {}
  ELSE LET k == prefix \o items[1][1]
           v == items[1][2]
           here ==
             CASE v.t = "dict" ->
                    (IF prefix # "" THEN {k \o "]"} ELSE {})
                      \cup ClosingKeysOfItems(v.items, k \o "[")
               [] v.t = "list" -> ClosingKeysOfList(v.items, 0, k)
               [] OTHER -> {}
       IN  here \cup ClosingKeysOfItems(Tail(items), prefix)

ClosingKeysOfList(items, i, k) ==
  IF items = <<>> THEN {}
  ELSE (IF items[1].t = "dict"
        THEN ClosingKeysOfItems(items[1].items, k \o "[" \o ToString(i) \o "][")
        ELSE {})
         \cup ClosingKeysOfList(Tail(items), i + 1, k)

EmptyValued(flattened) == {i \in 1..Len(flattened) : flattened[i][2] = ""}

\* C26: the entries of the flattened mapping with the empty string as value
\* are one per mapping met under a non-empty prefix, under that mapping's
\* effective key followed by "]"; a top-level mapping and a mapping that is
\* an element of a sequence add none; the entry follows the mapping's own
\* entries.
C26_ClosingPseudoEntry ==
  (query.op = "flatten_input" /\ result.kind = "return") =>
    /\ {result.value[i][1] : i \in EmptyValued(result.value)}
         = ClosingKeysOfItems(query.params, "")
    /\ Cardinality(EmptyValued(result.value))
         = Cardinality(ClosingKeysOfItems(query.params, ""))
    /\ \A k \in FlattenKeys, v, w \in FlattenScalars :
         /\ query.params = << <<"a", PyDict(<< <<k, v>> >>)>> >>
              => result.value = << <<"a[" \o k, str(v)>> >>
         /\ query.params = << <<"a", PyList(<<PyDict(<< <<k, v>> >>)>>)>> >>
              => result.value = << <<"a[0][" \o k, str(v)>> >>
         /\ query.params = << <<"a", PyDict(<< <<k, PyDict(<< <<"a", v>>, <<"b", w>> >>)>> >>)>> >>
              => result.value = << <<"a[" \o k \o "[a", str(v)>>,
                                   <<"a[" \o k \o "[b", str(w)>>,
                                   <<"a[" \o k \o "]", "">> >>

C26_Witness ==
  /\ query.op = "flatten_input"
  /\ query.params =
       << <<"a", PyDict(<< <<"b", PyDict(<< <<"a", PyInt(1)>>, <<"b", PyInt(2)>> >>)>> >>)>> >>
  /\ result.kind = "return"
  /\ result.value = << <<"a[b[a", "1">>, <<"a[b[b", "2">>, <<"a[b]", "">> >>

----------------------------------------------------------------------------
(* utils/error_handling.py and tools/*.py: one tool invocation *)

\* Python None, for an id argument that is None or not passed
None == -1

Pass == [kind |-> "pass"]

\* list[int] as an f-string shows it
RECURSIVE JoinInts(_)
JoinInts(s) ==
  IF Len(s) = 0 THEN <<>>
  ELSE IF Len(s) = 1 THEN <<ToString(s[1])>>
  ELSE <<ToString(s[1]), ", ">> \o JoinInts(Tail(s))

ListStr(s) == <<"[">> \o JoinInts(s) \o <<"]">>

get_write_restriction_message_generic(cfg, course_id) ==
  <<"Write operations are not allowed.">>

get_write_restriction_message(cfg, course_id) ==
  IF is_production(cfg)
  THEN <<"Write operations are DISABLED in PRODUCTION mode.\nAttempted: Course ",
         ToString(course_id), "\nSafety: prod_allow_writes=",
         BoolStr(cfg.prod_allow_writes)>>
  ELSE <<"Write operations are only allowed on whitelisted courses in DEV mode.\nAttempted: Course ",
         ToString(course_id), "\nAllowed: ">>
         \o ListStr(parsed_dev_whitelist(cfg))
         \o <<"\nTo allow writes to this course, add it to MOODLE_DEV_COURSE_WHITELIST">>

\* a keyword argument that the caller did not pass
NotPassed == -2

\* kwargs.get(name)
kwargs_get(kwargs, name) ==
  IF name \in DOMAIN kwargs /\ kwargs[name] # NotPassed THEN kwargs[name] ELSE None

\* the lifespan context a ctx gives access to: "ctx" holds moodle_client and
\* config, "no_config" holds no config, "no_ctx" is ctx=None
CtxKinds == {"ctx", "no_config", "no_ctx"}

\* require_write_permission(course_id_param).wrapper up to its call of func
gate_check_no_policy(cfg, kwargs, ctx, course_id_param) ==
  LET course_id == kwargs_get(kwargs, course_id_param)
  IN  IF course_id = None
      THEN Raise("WriteOperationError",
                 <<"Write operation requires '", course_id_param, "' parameter">>)
      ELSE IF ctx = "no_ctx"
      THEN Raise("WriteOperationError",
                 <<"Write operation requires Context (ctx parameter)">>)
      ELSE IF ctx = "no_config"
      THEN Raise("WriteOperationError", <<"Configuration not available in context">>)
      ELSE Pass

gate_check_open_without_config(cfg, kwargs, ctx, course_id_param) ==
  LET course_id == kwargs_get(kwargs, course_id_param)
  IN  IF course_id = None
      THEN Raise("WriteOperationError",
                 <<"Write operation requires '", course_id_param, "' parameter">>)
      ELSE IF ctx = "no_ctx" \/ ctx = "no_config"
      THEN Pass
      ELSE IF ~can_write_to_course(cfg, course_id)
      THEN Raise("WriteOperationError",
                 <<"Write operation blocked for safety:\n\n">>
                   \o get_write_restriction_message(cfg, course_id))
      ELSE Pass

gate_check(cfg, kwargs, ctx, course_id_param) ==
  LET course_id == kwargs_get(kwargs, course_id_param)
  IN  IF course_id = None
      THEN Raise("WriteOperationError",
                 <<"Write operation requires '", course_id_param, "' parameter">>)
      ELSE IF ctx = "no_ctx"
      THEN Raise("WriteOperationError",
                 <<"Write operation requires Context (ctx parameter)">>)
      ELSE IF ctx = "no_config"
      THEN Raise("WriteOperationError", <<"Configuration not available in context">>)
      ELSE IF ~can_write_to_course(cfg, course_id)
      THEN Raise("WriteOperationError",
                 <<"Write operation blocked for safety:\n\n">>
                   \o get_write_restriction_message(cfg, course_id))
      ELSE Pass

\* stacked require_write_permission decorators, outermost first
RECURSIVE run_gates(_, _, _, _)
run_gates(gates, cfg, kwargs, ctx) ==
  IF gates = <<>> THEN Pass
  ELSE LET r == gate_check(cfg, kwargs, ctx, Head(gates))
       IN  IF r = Pass THEN run_gates(Tail(gates), cfg, kwargs, ctx) ELSE r

----------------------------------------------------------------------------
(* The tools *)

ToolNames ==
  { "moodle_get_course_details", "moodle_create_course", "moodle_update_course",
    "moodle_delete_course", "moodle_import_course_content",
    "moodle_delete_course_category", "moodle_enrol_users", "moodle_send_message",
    "moodle_submit_quiz", "moodle_delete_groups" }

ImportGates_source_only == <<"source_course_id">>

\* the decorators of moodle_import_course_content
ImportGates == <<"source_course_id", "dest_course_id">>

\* the require_write_permission decorators of a tool, outermost first
Gates(tool) ==
  CASE tool = "moodle_update_course" -> <<"course_id">>
    [] tool = "moodle_delete_course" -> <<"course_id">>
    [] tool = "moodle_enrol_users" -> <<"course_id">>
    [] tool = "moodle_submit_quiz" -> <<"course_id">>
    [] tool = "moodle_delete_groups" -> <<"course_id">>
    [] tool = "moodle_import_course_content" -> ImportGates
    [] OTHER -> <<>>

\* readOnlyHint False in the tool's annotations
Mutating(tool) == tool # "moodle_get_course_details"

\* body wrapped in try / except Exception as e: raise Exception(...)
Wraps(tool) == tool # "moodle_get_course_details"

\* the id arguments of a tool
IdParams(tool) ==
  CASE tool = "moodle_import_course_content" -> {"source_course_id", "dest_course_id"}
    [] tool \in {"moodle_create_course", "moodle_delete_course_category"} -> {"category_id"}
    [] tool = "moodle_send_message" -> {"recipient_user_id"}
    [] tool = "moodle_submit_quiz" -> {"course_id", "attempt_id"}
    [] tool = "moodle_delete_groups" -> {"course_id", "group_id"}
    [] OTHER -> {"course_id"}

WsFunction(tool) ==
  CASE tool = "moodle_get_course_details" -> "core_course_get_courses"
    [] tool = "moodle_create_course" -> "core_course_create_courses"
    [] tool = "moodle_update_course" -> "core_course_update_courses"
    [] tool = "moodle_delete_course" -> "core_course_delete_courses"
    [] tool = "moodle_import_course_content" -> "core_course_import_course"
    [] tool = "moodle_delete_course_category" -> "core_course_delete_categories"
    [] tool = "moodle_enrol_users" -> "enrol_manual_enrol_users"
    [] tool = "moodle_send_message" -> "core_message_send_instant_messages"
    [] tool = "moodle_submit_quiz" -> "mod_quiz_process_attempt"
    [] tool = "moodle_delete_groups" -> "core_group_delete_groups"

\* the id-carrying entries of the dict a tool passes to _make_request
PyId(v) == IF v = None THEN PyNone ELSE PyInt(v)

RpcParams(tool, kwargs) ==
  CASE tool = "moodle_get_course_details" ->
         << <<"options[ids][0]", PyId(kwargs.course_id)>> >>
    [] tool = "moodle_create_course" ->
         << <<"courses[0][categoryid]", PyId(kwargs.category_id)>> >>
    [] tool = "moodle_update_course" ->
         << <<"courses[0][id]", PyId(kwargs.course_id)>> >>
    [] tool = "moodle_delete_course" ->
         << <<"courseids[0]", PyId(kwargs.course_id)>> >>
    [] tool = "moodle_import_course_content" ->
         << <<"importfrom", PyId(kwargs.source_course_id)>>,
            <<"importto", PyId(kwargs.dest_course_id)>>,
            <<"deletecontent", PyInt(0)>> >>
    [] tool = "moodle_delete_course_category" ->
         << <<"categories[0][id]", PyId(kwargs.category_id)>> >>
    [] tool = "moodle_enrol_users" ->
         << <<"enrolments[0][courseid]", PyId(kwargs.course_id)>> >>
    [] tool = "moodle_send_message" ->
         << <<"messages[0][touserid]", PyId(kwargs.recipient_user_id)>> >>
    [] tool = "moodle_submit_quiz" ->
         << <<"attemptid", PyId(kwargs.attempt_id)>>,
            <<"timeup", PyInt(0)>>,
            <<"finishattempt", PyInt(1)>> >>
    [] tool = "moodle_delete_groups" ->
         << <<"groupids[0]", PyId(kwargs.group_id)>> >>

\* the tool body up to its first await of _make_request
body_start(tool, ctx, updates) ==
  IF ctx = "no_ctx"
  THEN Raise("RuntimeError",
             <<"Context is None - ensure tool is called with ctx parameter">>)
  ELSE IF tool = "moodle_update_course" /\ ~updates
  THEN Return("No updates specified. Please provide at least one field to update.")
  ELSE Await

\* the tool body after _make_request returned value
post_process(tool, value) ==
  CASE tool = "moodle_get_course_details" ->
         IF value.json = "array"
         THEN Return(IF value.items = <<>> THEN "Course not found." ELSE "Course Details")
         ELSE IF value.json = "scalar" THEN Return("Course not found.")
         ELSE Raise("KeyError", <<"0">>)
    [] tool = "moodle_create_course" ->
         IF value.json = "array" /\ value.items # <<>>
         THEN Return("Course Created Successfully")
         ELSE IF value.json = "object" THEN Raise("KeyError", <<"0">>)
         ELSE Raise("Exception", <<"Failed to create course - no result returned">>)
    [] OTHER -> Return("done")

\* the text before str(e) in the tool's raise Exception(f"...: {str(e)}")
FailPrefix(tool) ==
  CASE tool = "moodle_create_course" -> "Failed to create course: "
    [] tool = "moodle_update_course" -> "Failed to update course: "
    [] tool = "moodle_delete_course" -> "Failed to delete course: "
    [] tool = "moodle_import_course_content" -> "Failed to import course content: "
    [] tool = "moodle_delete_course_category" -> "Failed to delete category: "
    [] tool = "moodle_enrol_users" -> "Failed to enrol users: "
    [] tool = "moodle_send_message" -> "Failed to send message: "
    [] tool = "moodle_submit_quiz" -> "Failed to submit quiz: "
    [] tool = "moodle_delete_groups" -> "Failed to delete groups: "

\* the tool body from the end of _make_request on
body_finish(tool, r) ==
  LET after == IF r.kind = "raise" THEN r ELSE post_process(tool, r.value)
  IN  IF after.kind = "raise" /\ Wraps(tool)
      THEN Raise("Exception", <<FailPrefix(tool)>> \o after.message)
      ELSE after

\* the class hierarchy of core/exceptions.py and of the builtins met here
BaseOf(exc) ==
  CASE exc = "WriteOperationError" -> "MoodlePermissionError"
    [] exc = "MoodlePermissionError" -> "MoodleAPIError"
    [] exc = "MoodleAuthError" -> "MoodleAPIError"
    [] exc = "MoodleNotFoundError" -> "MoodleAPIError"
    [] exc = "MoodleAPIError" -> "MoodleException"
    [] exc = "MoodleConnectionError" -> "MoodleException"
    [] exc = "MoodleValidationError" -> "MoodleException"
    [] exc = "MoodleException" -> "Exception"
    [] OTHER -> "Exception"

RECURSIVE isinstance(_, _)
isinstance(exc, class) ==
  \/ exc = class
  \/ exc # "Exception" /\ isinstance(BaseOf(exc), class)

ToolError(rendering, message) ==
  [kind |-> "ToolError", rendering |-> rendering, message |-> message]

ToolReturn(text) == [kind |-> "return", text |-> text]

\* the is_dev computed by the except Exception clause: config.is_development
\* is a property, so calling its value raises TypeError, which the bare
\* except swallows; is_dev keeps its default
is_dev_for_error(ctx) == TRUE

\* the except clauses of handle_moodle_errors.wrapper, in order
handle_moodle_errors(e, ctx) ==
  IF isinstance(e.exc, "MoodleAuthError")
  THEN ToolError("auth", <<"Authentication failed: ">> \o e.message
                           \o <<"\n\nPlease verify:\n1. MOODLE_TOKEN is correct and not expired">>)
  ELSE IF isinstance(e.exc, "MoodlePermissionError")
  THEN ToolError("permission", <<"Permission denied: ">> \o e.message
                                 \o <<"\n\nThe current user lacks permission for this operation. ">>)
  ELSE IF isinstance(e.exc, "MoodleNotFoundError")
  THEN ToolError("notfound", <<"Not found: ">> \o e.message
                               \o <<"\n\nPlease verify the ID is correct and the resource exists.">>)
  ELSE IF isinstance(e.exc, "MoodleConnectionError")
  THEN ToolError("connection", <<"Connection error: ">> \o e.message
                                 \o <<"\n\nPlease verify:\n1. MOODLE_URL is correct and accessible">>)
  ELSE IF isinstance(e.exc, "MoodleValidationError")
  THEN ToolError("validation", <<"Invalid input: ">> \o e.message)
  ELSE IF isinstance(e.exc, "MoodleAPIError")
  THEN ToolError("api", <<"Moodle API error: ">> \o e.message)
  ELSE IF isinstance(e.exc, "ValueError")
  THEN ToolError("valueerror", <<"Validation error: ">> \o e.message)
  ELSE ToolError("unexpected",
                 (IF is_dev_for_error(ctx)
                  THEN <<"An unexpected error occurred: ", e.exc, "\n\n">>
                  ELSE <<"An unexpected error occurred.\n\n">>)
                   \o <<"Please try again or contact the administrator if the issue persists.">>)

\* what the MCP caller gets from a finished coroutine
finish(r, ctx) ==
  IF r.kind = "raise" THEN handle_moodle_errors(r, ctx) ELSE ToolReturn(r.value)

----------------------------------------------------------------------------
(* Inputs of the tool specification *)

KwValues == {1, 7299, None}

\* whether a field to update is passed: only moodle_update_course has such
\* optional fields
UpdatesGiven(tool) == IF tool = "moodle_update_course" THEN BOOLEAN ELSE {TRUE}

\* the keyword arguments a tool can be called with: an argument that a
\* require_write_permission decorator names may also be left out
GateParams(tool) == {Gates(tool)[i] : i \in 1..Len(Gates(tool))}

Kwargs(tool) ==
  {kw \in [IdParams(tool) -> KwValues \cup {NotPassed}] :
     \A name \in IdParams(tool) : kw[name] = NotPassed => name \in GateParams(tool)}

ToolConfigs ==
  {MoodleConfig(e, wl, paw) :
     e \in {S_dev, S_prod, <<"P", "R", "O", "D">>},
     wl \in {S_7299, <<"7", "2", "9", "9", ",", "1">>, <<>>},
     paw \in BOOLEAN}

ErrorBody(exception, errorcode, debuginfo) ==
  [json |-> "object", exception |-> exception, errorcode |-> errorcode,
   message |-> S_bad, debuginfo |-> debuginfo]

ToolBodies ==
  { [json |-> "invalid"],
    [json |-> "array", items |-> <<>>],
    [json |-> "array", items |-> <<2292>>],
    [json |-> "scalar", value |-> 0],
    [json |-> "object", exception |-> Absent, errorcode |-> Absent,
     message |-> Absent, debuginfo |-> Absent],
    ErrorBody(S_x, S_invalidtoken, Absent),
    ErrorBody(Absent, S_requireloginerror, Absent),
    ErrorBody(S_x, S_invalidrecord, Absent),
    ErrorBody(S_x, S_x, S_dbg),
    ErrorBody(S_x, Null, Absent) }

ToolResponses ==
  {HttpResponse(s, b) : s \in {200, 401, 404, 500}, b \in ToolBodies} \cup RequestErrors

\* handle_moodle_errors(require_write_permission(...)(tool)) called with
\* kwargs, run to its first await or to its end
Invoke(tool, ctx, updates) ==
  /\ call.pc = "idle"
  /\ \E kwargs \in Kwargs(tool) :
       LET g == run_gates(Gates(tool), config, kwargs, ctx)
           b == body_start(tool, ctx, updates)
           started == (g = Pass)
           awaits == started /\ b = Await
           me == [tool |-> tool, kwargs |-> kwargs, ctx |-> ctx, updates |-> updates,
                  gate |-> g, body_started |-> started,
                  pc |-> IF awaits THEN "awaiting" ELSE "done"]
       IN  /\ call' = me
           /\ sent' = IF awaits
                      THEN client_get(client, <<>>,
                                      Request(WsFunction(tool), RpcParams(tool, kwargs))).requests
                      ELSE <<>>
           /\ outcome' = IF awaits THEN NoOutcome
                         ELSE IF started THEN finish(b, ctx)
                         ELSE finish(g, ctx)
  /\ response' = NoResponse
  /\ result' = NoResult
  /\ UNCHANGED <<client, config, query>>

\* the awaited _make_request completes and the tool runs to its end
Complete ==
  /\ call.pc = "awaiting"
  /\ call.tool \in ToolNames
  /\ \E resp \in ToolResponses :
       /\ response' = resp
       /\ result' = make_request(resp)
       /\ outcome' = finish(body_finish(call.tool, make_request(resp)), call.ctx)
  /\ call' = [call EXCEPT !.pc = "done"]
  /\ UNCHANGED <<client, config, query, sent>>

\* the wrapper's return value or ToolError leaves the coroutine: the framework
\* hands it to the MCP caller and the server is ready for the next invocation
Deliver ==
  /\ call.pc = "done"
  /\ call.tool \in ToolNames
  /\ call' = Idle
  /\ sent' = <<>>
  /\ response' = NoResponse
  /\ result' = NoResult
  /\ outcome' = NoOutcome
  /\ UNCHANGED <<client, config, query>>

Init ==
  /\ config \in ToolConfigs
  /\ query = NoQuery
  /\ call = Idle
  /\ sent = <<>>
  /\ response = NoResponse
  /\ result = NoResult
  /\ outcome = NoOutcome
  /\ client = Open

Next ==
  \/ \E tool \in ToolNames, ctx \in CtxKinds :
       \E updates \in UpdatesGiven(tool) : Invoke(tool, ctx, updates)
  \/ Complete
  \/ Deliver

Spec == Init /\ [][Next]_vars

----------------------------------------------------------------------------
(* Properties of the write gate in the tool layer (Spec) *)

\* some gate of the invocation names an id argument that the policy denies
SomeGateDenied ==
  \E i \in 1..Len(Gates(call.tool)) :
    LET id == kwargs_get(call.kwargs, Gates(call.tool)[i])
    IN  id # None /\ ~can_write_to_course(config, id)

\* C1: when can_write_to_course is false for the id argument a
\* require_write_permission decorator names, the invocation ends in a
\* ToolError, the tool body never starts and no HTTP request is issued.
C1_GateBeforeTransport ==
  (call.pc # "idle" /\ call.tool \in ToolNames /\ SomeGateDenied) =>
    /\ call.pc = "done"
    /\ outcome.kind = "ToolError"
    /\ ~call.body_started
    /\ sent = <<>>

C1_Witness ==
  /\ call.pc = "done"
  /\ call.tool = "moodle_enrol_users"
  /\ call.ctx = "ctx"
  /\ kwargs_get(call.kwargs, "course_id") = 1
  /\ ~can_write_to_course(config, 1)
  /\ outcome.kind = "ToolError"
  /\ sent = <<>>

\* C2: a request issued by a tool that mutates LMS state was preceded by the
\* gate approving a target identifier of that tool.
C2_MutatingRpcGated ==
  (call.pc # "idle" /\ call.tool \in ToolNames /\ Mutating(call.tool) /\ sent # <<>>) =>
    /\ Gates(call.tool) # <<>>
    /\ \A i \in 1..Len(Gates(call.tool)) :
         can_write_to_course(config, kwargs_get(call.kwargs, Gates(call.tool)[i]))

\* C7: moodle_import_course_content issues no RPC and ends in an error when
\* source_course_id or dest_course_id fails the gate; it issues its RPC when
\* both pass.
C7_BothTargetsMustPass ==
  (call.pc # "idle" /\ call.tool = "moodle_import_course_content"
     /\ call.ctx = "ctx"
     /\ kwargs_get(call.kwargs, "source_course_id") # None
     /\ kwargs_get(call.kwargs, "dest_course_id") # None) =>
    LET src_ok == can_write_to_course(config, call.kwargs.source_course_id)
        dst_ok == can_write_to_course(config, call.kwargs.dest_course_id)
    IN  /\ (~src_ok \/ ~dst_ok) =>
             (sent = <<>> /\ outcome.kind = "ToolError" /\ ~call.body_started)
        /\ (src_ok /\ dst_ok) =>
             (/\ Len(sent) = 1
              /\ dict_get(sent[1], "wsfunction") = "core_course_import_course"
              /\ dict_get(sent[1], "importfrom") = ToString(call.kwargs.source_course_id)
              /\ dict_get(sent[1], "importto") = ToString(call.kwargs.dest_course_id))

C7_Witness ==
  /\ call.pc = "done"
  /\ call.tool = "moodle_import_course_content"
  /\ call.ctx = "ctx"
  /\ call.kwargs.source_course_id = 7299
  /\ call.kwargs.dest_course_id = 1
  /\ can_write_to_course(config, 7299)
  /\ ~can_write_to_course(config, 1)
  /\ outcome.kind = "ToolError"
  /\ sent = <<>>

----------------------------------------------------------------------------
(* Properties of error rendering and of the gate's denials (Spec) *)

ExceptionTypeNames == {"Exception", "KeyError", "RuntimeError", "TypeError"}

\* C22: in Production the ToolError for an unclassified exception does not
\* hold the exception's type name.
C22_NoTypeNameInProduction ==
  (/\ call.pc = "done"
   /\ call.tool \in ToolNames
   /\ call.ctx = "ctx"
   /\ is_production(config)
   /\ outcome.kind = "ToolError"
   /\ outcome.rendering = "unexpected") =>
    \A i \in 1..Len(outcome.message) : outcome.message[i] \notin ExceptionTypeNames

RenderingOf(exc) ==
  CASE exc = "MoodleAuthError" -> "auth"
    [] exc = "MoodlePermissionError" -> "permission"
    [] exc = "MoodleNotFoundError" -> "notfound"
    [] exc = "MoodleConnectionError" -> "connection"
    [] exc = "MoodleAPIError" -> "api"

\* C23: when _make_request raises one of the classified errors during a tool
\* invocation, the caller gets the ToolError rendering of that same kind.
C23_MappedByKind ==
  (/\ call.pc = "done"
   /\ call.tool \in ToolNames
   /\ result.kind = "raise"
   /\ result.exc \in {"MoodleAuthError", "MoodlePermissionError", "MoodleNotFoundError",
                      "MoodleConnectionError", "MoodleAPIError"}) =>
    /\ outcome.kind = "ToolError"
    /\ outcome.rendering = RenderingOf(result.exc)

\* the gates of the invocation, in order, that do not let their id through
FailingGates ==
  {i \in 1..Len(Gates(call.tool)) :
     LET id == kwargs_get(call.kwargs, Gates(call.tool)[i])
     IN  id = None \/ ~can_write_to_course(config, id)}

\* C24: a denial by the policy is a raised WriteOperationError whose message
\* names the attempted course id and the active policy (the allow-list in
\* Development, prod_allow_writes in Production), and the ToolError that the
\* caller receives still holds that text.
C24_DenialNamesTargetAndPolicy ==
  (/\ call.pc # "idle"
   /\ call.tool \in ToolNames
   /\ call.ctx = "ctx"
   /\ FailingGates # {}
   /\ kwargs_get(call.kwargs, Gates(call.tool)[Min(FailingGates)]) # None) =>
    LET id == kwargs_get(call.kwargs, Gates(call.tool)[Min(FailingGates)])
        policy == IF is_production(config)
                  THEN <<"\nSafety: prod_allow_writes=", BoolStr(config.prod_allow_writes)>>
                  ELSE <<"\nAllowed: ">> \o ListStr(parsed_dev_whitelist(config))
    IN  /\ call.gate.kind = "raise"
        /\ call.gate.exc = "WriteOperationError"
        /\ Contains(<<ToString(id)>>, call.gate.message)
        /\ Contains(policy, call.gate.message)
        /\ call.pc = "done"
        /\ outcome.kind = "ToolError"
        /\ Contains(call.gate.message, outcome.message)

C24_Witness ==
  /\ call.pc = "done"
  /\ call.tool = "moodle_import_course_content"
  /\ call.ctx = "ctx"
  /\ ~is_production(config)
  /\ kwargs_get(call.kwargs, "source_course_id") = 7299
  /\ kwargs_get(call.kwargs, "dest_course_id") = 1
  /\ FailingGates = {2}
  /\ outcome.kind = "ToolError"

\* C28: when the id argument a gate names is not passed or is None, or ctx
\* is missing, or the lifespan context holds no config, the wrapper raises
\* WriteOperationError, the tool body does not run and no request is
\* issued, whatever the policy allows.
C28_GateFailsClosed ==
  (/\ call.pc # "idle"
   /\ call.tool \in ToolNames
   /\ Gates(call.tool) # <<>>
   /\ \/ \E i \in 1..Len(Gates(call.tool)) :
            kwargs_get(call.kwargs, Gates(call.tool)[i]) = None
      \/ call.ctx \in {"no_ctx", "no_config"}) =>
    /\ call.gate.kind = "raise"
    /\ call.gate.exc = "WriteOperationError"
    /\ ~call.body_started
    /\ sent = <<>>
    /\ call.pc = "done"
    /\ outcome.kind = "ToolError"

C28_Witness ==
  /\ call.pc = "done"
  /\ call.tool = "moodle_enrol_users"
  /\ call.ctx = "no_config"
  /\ call.kwargs.course_id = 7299
  /\ is_production(config)
  /\ config.prod_allow_writes
  /\ call.gate.kind = "raise"
  /\ sent = <<>>

\* C30: the request of a gated tool holds every id that its gates approved
\* among the parameters the tool passed.
C30_ApprovedIdIsRpcTarget ==
  (/\ call.pc # "idle"
   /\ call.tool \in ToolNames
   /\ Gates(call.tool) # <<>>
   /\ sent # <<>>) =>
    \A i \in 1..Len(Gates(call.tool)) :
      \E j \in 4..Len(sent[1]) :
        sent[1][j][2] = ToString(kwargs_get(call.kwargs, Gates(call.tool)[i]))

----------------------------------------------------------------------------
(* main.py: lifespan, the owner of the shared client *)

\* MoodleAPIClient.__init__, client.py:41-54; rstrip('/') leaves the modelled
\* URLs, which have no trailing slash, as they are
MoodleAPIClient(base_url, tok) ==
  [closed |-> FALSE, base_url |-> base_url, token |-> tok,
   api_endpoint |-> base_url \o "/webservice/rest/server.php"]

\* before lifespan has run there is no client
NoClient == [created |-> FALSE]

LifespanStart ==
  [pc |-> "start", tool |-> "lifespan", created |-> 0, closes |-> 0, how |-> "none"]

\* lifespan from its entry to the await of get_site_info, main.py:36-59
LifespanEnter ==
  /\ call.pc = "start"
  /\ LET c == MoodleAPIClient(url(config), token(config))
         g == client_get(c, <<>>, Request("core_webservice_get_site_info", <<>>))
     IN  /\ client' = c
         /\ sent' = g.requests
  /\ call' = [call EXCEPT !.pc = "startup", !.created = @ + 1]
  /\ UNCHANGED <<config, query, response, result, outcome>>

\* the startup test ends, with site info or with a caught exception, and
\* lifespan yields its context, main.py:59-75
LifespanYield ==
  /\ call.pc = "startup"
  /\ \E resp \in ToolResponses :
       LET r == make_request(resp)
       IN  /\ response' = resp
           /\ result' = r
           /\ outcome' = [kind |-> "yield",
                          verified |-> IF r.kind = "return"
                                       THEN r.value.json = "object" ELSE FALSE]
  /\ call' = [call EXCEPT !.pc = "serving"]
  /\ UNCHANGED <<client, config, query, sent>>

\* the server shuts down and the generator is resumed after its yield,
\* main.py:77-80
LifespanShutdown ==
  /\ call.pc = "serving"
  /\ client' = [client EXCEPT !.closed = TRUE]
  /\ call' = [call EXCEPT !.pc = "ended", !.closes = @ + 1, !.how = "shutdown"]
  /\ UNCHANGED <<config, query, sent, response, result, outcome>>

\* an exception of the served block is thrown into the generator at its
\* yield: no try/finally encloses the yield, so it leaves lifespan at once
LifespanThrow ==
  /\ call.pc = "serving"
  /\ call' = [call EXCEPT !.pc = "ended", !.how = "exception"]
  /\ UNCHANGED <<client, config, query, sent, response, result, outcome>>

InitLifespan ==
  /\ config \in ToolConfigs
  /\ query = NoQuery
  /\ call = LifespanStart
  /\ sent = <<>>
  /\ response = NoResponse
  /\ result = NoResult
  /\ outcome = NoOutcome
  /\ client = NoClient

NextLifespan ==
  \/ LifespanEnter
  \/ LifespanYield
  \/ LifespanShutdown
  \/ LifespanThrow

SpecLifespan == InitLifespan /\ [][NextLifespan]_vars

\* C21: the lifespan creates the client once, does not close it while the
\* context is served, and has called close() exactly once whenever it has
\* ended after the creation, by shutdown or by an exception at its yield.
C21_CreatedOnceClosedOnce ==
  /\ call.created <= 1
  /\ call.pc \in {"startup", "serving"} =>
       call.created = 1 /\ call.closes = 0 /\ ~client.closed
  /\ call.pc = "ended" => call.closes = 1 /\ client.closed

----------------------------------------------------------------------------
(* Concurrent tool invocations on the shared client *)

MaxTasks == 2        \* invocations in flight at once

Tasks == 1..MaxTasks

ConcurrentTools == {"moodle_get_course_details", "moodle_enrol_users"}

ConcurrentKwargs(tool) ==
  {kw \in Kwargs(tool) : \A name \in IdParams(tool) : kw[name] \in {1, 7299}}

ConcurrentResponses ==
  { HttpResponse(200, [json |-> "array", items |-> <<2292>>]),
    HttpResponse(200, [json |-> "invalid"]),
    HttpResponse(200, ErrorBody(S_x, S_invalidtoken, Absent)),
    HttpResponse(500, [json |-> "invalid"]),
    RequestError(<<"[Errno 111] Connection refused">>) }

self_after_request_closing_on_error(cl, r) ==
  IF r.kind = "raise" THEN [cl EXCEPT !.closed = TRUE] ELSE cl

\* the attributes of self after _make_request: it assigns none of them
self_after_request(cl, r) == cl

\* one invocation, from the call of the wrapper to its first await or its end
TaskInvoke(t, tool, kwargs) ==
  /\ call[t].pc = "idle"
  /\ LET g == run_gates(Gates(tool), config, kwargs, "ctx")
         b == body_start(tool, "ctx", TRUE)
         started == (g = Pass)
         req == client_get(client, <<>>,
                           Request(WsFunction(tool), RpcParams(tool, kwargs)))
         awaits == started /\ b = Await /\ req.outcome = Await
         me == [tool |-> tool, kwargs |-> kwargs, ctx |-> "ctx", updates |-> TRUE,
                gate |-> g, body_started |-> started,
                pc |-> IF awaits THEN "awaiting" ELSE "done"]
     IN  /\ call' = [call EXCEPT ![t] = me]
         /\ sent' = [sent EXCEPT ![t] = IF started /\ b = Await THEN req.requests ELSE <<>>]
         /\ outcome' = [outcome EXCEPT ![t] =
                          IF awaits THEN NoOutcome
                          ELSE IF ~started THEN finish(g, "ctx")
                          ELSE IF b = Await THEN finish(body_finish(tool, req.outcome), "ctx")
                          ELSE finish(b, "ctx")]
  /\ response' = [response EXCEPT ![t] = NoResponse]
  /\ result' = [result EXCEPT ![t] = NoResult]
  /\ UNCHANGED <<client, config, query>>

\* the response of one invocation arrives and it runs to its end
TaskComplete(t) ==
  /\ call[t].pc = "awaiting"
  /\ \E resp \in ConcurrentResponses :
       LET r == make_request(resp)
       IN  /\ response' = [response EXCEPT ![t] = resp]
           /\ result' = [result EXCEPT ![t] = r]
           /\ outcome' = [outcome EXCEPT ![t] =
                            finish(body_finish(call[t].tool, r), call[t].ctx)]
           /\ client' = self_after_request(client, r)
  /\ call' = [call EXCEPT ![t].pc = "done"]
  /\ UNCHANGED <<config, query, sent>>

\* the outcome of one invocation is handed to the MCP caller
TaskDeliver(t) ==
  /\ call[t].pc = "done"
  /\ call' = [call EXCEPT ![t] = Idle]
  /\ sent' = [sent EXCEPT ![t] = <<>>]
  /\ response' = [response EXCEPT ![t] = NoResponse]
  /\ result' = [result EXCEPT ![t] = NoResult]
  /\ outcome' = [outcome EXCEPT ![t] = NoOutcome]
  /\ UNCHANGED <<client, config, query>>

InitConcurrent ==
  /\ config \in {MoodleConfig(S_dev, S_7299, FALSE), MoodleConfig(S_prod, S_7299, TRUE)}
  /\ query = NoQuery
  /\ client = MoodleAPIClient(url(config), token(config))
  /\ call = [t \in Tasks |-> Idle]
  /\ sent = [t \in Tasks |-> <<>>]
  /\ response = [t \in Tasks |-> NoResponse]
  /\ result = [t \in Tasks |-> NoResult]
  /\ outcome = [t \in Tasks |-> NoOutcome]

NextConcurrent ==
  \/ \E t \in Tasks, tool \in ConcurrentTools :
       \E kwargs \in ConcurrentKwargs(tool) : TaskInvoke(t, tool, kwargs)
  \/ \E t \in Tasks : TaskComplete(t)
  \/ \E t \in Tasks : TaskDeliver(t)

SpecConcurrent == InitConcurrent /\ [][NextConcurrent]_vars

====
